---- MODULE Spec2Model ----
(***************************************************************************)
(* Model of the CSL normalisation pipeline of lib/utils/hayagriva.ts:      *)
(* normalize_csl parses a style file, runs remove_duplicate_layouts and    *)
(* replace_space_et_al_terms on the parsed document, and writes the        *)
(* stringified document to the save path.                                  *)
(*                                                                         *)
(* An XML element is a record [tag, attr, text, kids].  Every element kind *)
(* the rules look at carries one attribute of interest (layout: locale,    *)
(* term: name, et-al: term), held in attr; Undefined stands for an         *)
(* attribute that is not there.  A parsed element is a JavaScript object:  *)
(* [attr, text, keys, child], child mapping each child tag to the value    *)
(* the parser stores under that key.                                       *)
(***************************************************************************)
EXTENDS Integers, Sequences, FiniteSets, TLC

VARIABLES
  file,      \* the content of the file at cslFilePath (the style element)
  csl,       \* the parsed document, csl.style, mutated in place by the rules
  yielded,   \* the messages the rule generators have yielded in this run
  messages,  \* the value normalize_csl returned
  pc,        \* the position inside normalize_csl
  err,       \* the exception that left normalize_csl, or "none"
  raisedBy,  \* the rule that threw it, or "none"
  saved,     \* the content of the file at savePath
  written,   \* whether savePath has been written in this run
  run,       \* 1: the run on the input, 2: the run on the first run's output
  firstOut,  \* the content the first run wrote
  firstLog,  \* the messages the first run returned
  version,   \* the script: the one of normalize_csl or of normalize_style
  batch,     \* the files of the loop at the end of the script
  idx,       \* the position of the loop in batch
  lpc,       \* the position inside the loop, "single" outside of it
  before,    \* the content of savePath when test_hayagriva was entered
  exit,      \* the exit status of the last hayagriva process
  stderr,    \* what it wrote to its standard error
  calls,     \* the hayagriva processes run: the file, the style read, the end
  returned,  \* the values test_hayagriva returned, with their file
  console,   \* what console.error printed, with the file
  wpc,       \* two scripts at once: the position of each in test_hayagriva
  index,     \* the userscript: index.json as fetched
  location,  \* window.location.pathname, cut at the slashes
  rendered,  \* whether the site has put the page's content in the document
  dom,       \* the elements inserted before the h2 of the style preview
  timers,    \* the calls of annotate_info that setTimeout holds
  hooked,    \* whether watch_page_change has been reached
  outcome    \* how the last call of annotate_info on this page ended

pipeVars ==
  <<file, csl, yielded, messages, pc, err, raisedBy, saved, written, run,
    firstOut, firstLog>>

loopVars ==
  <<version, batch, idx, lpc, before, exit, stderr, calls, returned, console,
    wpc>>

pageVars == <<index, location, rendered, dom, timers, hooked, outcome>>

vars == <<pipeVars, loopVars, pageVars>>

\* the userscript is not running
NoPage ==
  /\ index = <<>>
  /\ location = <<>>
  /\ rendered = FALSE
  /\ dom = <<>>
  /\ timers = 0
  /\ hooked = "no"
  /\ outcome = "none"

----------------------------------------------------------------------------
(* Bounds *)

MaxLayouts == 3
MaxLocales == 2
MaxMacros == 2
MaxBatch == 2

\* setTimeout calls pending at once
MaxTimers == 2

----------------------------------------------------------------------------
(* JavaScript values *)

Undefined == "undefined"

\* the value of a property that is not there
Absent == [kind |-> "undefined", items |-> <<>>]

\* an object
Obj(o) == [kind |-> "object", items |-> <<o>>]

\* What the parser stores under a child tag: nothing when no child has the
\* tag, the child itself when exactly one has, an array when several have.
OneOrMany(s) ==
  IF Len(s) = 0 THEN Absent
  ELSE IF Len(s) = 1 THEN Obj(s[1])
  ELSE [kind |-> "array", items |-> s]

\* o[t]
Get(o, t) == IF t \in DOMAIN o.child THEN o.child[t] ELSE Absent

\* v[t] for a value v that is not undefined: a property of the object, and
\* undefined on an array (which has no such property)
Prop(v, t) == IF v.kind = "object" THEN Get(v.items[1], t) ELSE Absent

\* Array.isArray(v) ? v : [v]
Values(v) ==
  IF v.kind = "array" THEN [i \in 1..Len(v.items) |-> Obj(v.items[i])]
  ELSE <<v>>

Range(s) == {s[i] : i \in 1..Len(s)}

RECURSIVE Concat(_)
Concat(ss) == IF ss = <<>> THEN <<>> ELSE Head(ss) \o Concat(Tail(ss))

----------------------------------------------------------------------------
(* parse and stringify *)

\* the child tags in the order of their first appearance: the key order of
\* the parsed object
RECURSIVE Keys(_, _)
Keys(kids, seen) ==
  IF kids = <<>> THEN seen
  ELSE Keys(Tail(kids),
            IF Head(kids).tag \in Range(seen) THEN seen
            ELSE Append(seen, Head(kids).tag))

RECURSIVE ParseElem(_)
ParseElem(e) ==
  LET keys == Keys(e.kids, <<>>)
      of(t) == SelectSeq(e.kids, LAMBDA k : k.tag = t)
  IN [attr |-> e.attr, text |-> e.text, keys |-> keys,
      child |-> [t \in Range(keys) |->
                   OneOrMany([i \in 1..Len(of(t)) |-> ParseElem(of(t)[i])])]]

RECURSIVE StringifyElem(_, _)
StringifyElem(tag, o) ==
  [tag |-> tag, attr |-> o.attr, text |-> o.text,
   kids |-> Concat([k \in 1..Len(o.keys) |->
              LET items == o.child[o.keys[k]].items
              IN [i \in 1..Len(items) |-> StringifyElem(o.keys[k], items[i])]])]

parse(f) == ParseElem(f)

stringify(o) == StringifyElem("style", o)

----------------------------------------------------------------------------
(* Messages: a message is the sequence of its segments, cut at the         *)
(* brackets and parentheses; Text is the string.  The source's backquotes  *)
(* are written as apostrophes, a TLA+ string cannot hold a backquote.      *)

RECURSIVE Text(_)
Text(m) == IF m = <<>> THEN "" ELSE Head(m) \o Text(Tail(m))

MsgBibLayout ==
  <<"Removed the localized layout for bibliography. ",
    "(", "Discard CSL-M extension", ")">>

MsgCiteLayout ==
  <<"Removed the localized layout for citation. ",
    "(", "Discard CSL-M extension", ")">>

MsgTermName == <<"Replaced the term name 'space-et-al' with 'et-al'.">>

MsgEtAlRef ==
  <<"Replaced the term 'space-et-al' referenced by '<et-al>' with 'et-al'.">>

----------------------------------------------------------------------------
(* remove_duplicate_layouts *)

Ok(c, ms) == [csl |-> c, msgs |-> ms, err |-> "none"]

Throw(c, ms, e) == [csl |-> c, msgs |-> ms, err |-> e]

\* a check that lets a layout without a locale through
LocaleAcceptedOrNone(locale) == locale \in {"en", "zh", Undefined}

\* ["en", "zh"].includes(locale)
LocaleAccepted(locale) == locale \in {"en", "zh"}

\* layouts.length > 1: a single layout is an object and has no length
LengthAboveOne(layouts) == layouts.kind = "array" /\ Len(layouts.items) > 1

\* layouts.length === 2
LengthIsTwo(layouts) == Len(layouts.items) = 2

\* The block for one section; st is the document and the messages so far.
DedupSection(st, section, msg) ==
  LET sec == Get(st.csl, section)
      layouts == Prop(sec, "layout")
  IN IF st.err # "none" THEN st
     ELSE IF sec.kind = "undefined" \/ layouts.kind = "undefined"
       THEN Throw(st.csl, st.msgs, "TypeError")
     ELSE IF ~LengthAboveOne(layouts) THEN st
     ELSE IF ~LengthIsTwo(layouts)
       THEN Throw(st.csl, st.msgs, "AssertionError")
     ELSE IF ~LocaleAccepted(layouts.items[1].attr)
       THEN Throw(st.csl, st.msgs, "AssertionError")
     ELSE Ok([st.csl EXCEPT
                !.child[section].items[1].child["layout"].items = Tail(@)],
             Append(st.msgs, msg))

remove_duplicate_layouts(c) ==
  DedupSection(DedupSection(Ok(c, <<>>), "bibliography", MsgBibLayout),
               "citation", MsgCiteLayout)

----------------------------------------------------------------------------
(* replace_space_et_al_terms *)

SpaceEtAl == "space-et-al"

EtAl == "et-al"

\* term["@name"] === "space-et-al"
IsSpaceEtAl(name) == name = SpaceEtAl

\* a loop that yields the message and forgets the assignment
KeepTerms(terms) == terms

\* The inner loop over the terms of one locale: the terms renamed, one
\* message for each term renamed.
RenameTerms(terms) ==
  [i \in 1..Len(terms) |->
     IF IsSpaceEtAl(terms[i].attr) THEN [terms[i] EXCEPT !.attr = EtAl]
     ELSE terms[i]]

RenameMessages(terms) ==
  [i \in 1..Len(SelectSeq(terms, LAMBDA t : IsSpaceEtAl(t.attr))) |->
     MsgTermName]

\* if (locale.terms)
Truthy(v) == v.kind # "undefined"

\* One iteration of the loop over the locales; locale is the value the loop
\* variable holds, i its position in the array (or 1).
LocaleStep(st, i, locale) ==
  IF locale.kind = "undefined" THEN Throw(st.csl, st.msgs, "TypeError")
  ELSE LET terms == Prop(locale, "terms") IN
    IF ~Truthy(terms) THEN st
    ELSE LET term == Prop(terms, "term") IN
      IF term.kind = "undefined" THEN Throw(st.csl, st.msgs, "TypeError")
      ELSE Ok([st.csl EXCEPT
                 !.child["locale"].items[i].child["terms"].items[1]
                  .child["term"].items = RenameTerms(@)],
              st.msgs \o RenameMessages(term.items))

RECURSIVE LocaleLoop(_, _)
LocaleLoop(st, i) ==
  LET locales == Values(Get(st.csl, "locale")) IN
  IF st.err # "none" \/ i > Len(locales) THEN st
  ELSE LocaleLoop(LocaleStep(st, i, locales[i]), i + 1)

\* macro.names?.["et-al"]?.["@term"]
EtAlTerm(macro) ==
  LET names == Get(macro, "names")
      etal == IF names.kind = "undefined" THEN Absent ELSE Prop(names, "et-al")
  IN IF etal.kind = "object" THEN etal.items[1].attr ELSE Undefined

\* One iteration of the loop over the macros.
MacroStep(st, i) ==
  IF IsSpaceEtAl(EtAlTerm(Get(st.csl, "macro").items[i]))
  THEN Ok([st.csl EXCEPT
             !.child["macro"].items[i].child["names"].items[1]
              .child["et-al"].items[1].attr = EtAl],
          Append(st.msgs, MsgEtAlRef))
  ELSE st

RECURSIVE MacroLoop(_, _)
MacroLoop(st, i) ==
  IF i > Len(Get(st.csl, "macro").items) THEN st
  ELSE MacroLoop(MacroStep(st, i), i + 1)

\* for (const macro of macros): only an array can be iterated
Iterable(v) == v.kind = "array"

MacroPass(st) ==
  IF st.err # "none" THEN st
  ELSE IF ~Iterable(Get(st.csl, "macro"))
    THEN Throw(st.csl, st.msgs, "TypeError")
  ELSE MacroLoop(st, 1)

\* the two loops the other way round: macros first, locales second
MacrosThenLocales(c) == LocaleLoop(MacroPass(Ok(c, <<>>)), 1)

replace_space_et_al_terms(c) == MacroPass(LocaleLoop(Ok(c, <<>>), 1))

----------------------------------------------------------------------------
(* Style files *)

Elem(tag, attr, text, kids) ==
  [tag |-> tag, attr |-> attr, text |-> text, kids |-> kids]

SeqsUpTo(S, n) == UNION {[1..k -> S] : k \in 0..n}

Distinct(s) == \A i, j \in 1..Len(s) : s[i] = s[j] => i = j

\* the locale attribute of a layout: a language, or none
LayoutLocales == {"en", "zh", "ja", Undefined}

Layout(locale) ==
  Elem("layout", locale, "", <<Elem("text", "citation-number", "", <<>>)>>)

\* the layouts of a section: one to MaxLayouts, no locale twice
LayoutLists ==
  {s \in SeqsUpTo(LayoutLocales, MaxLayouts) : Len(s) >= 1 /\ Distinct(s)}

Section(tag, locales) ==
  Elem(tag, Undefined, "", [i \in 1..Len(locales) |-> Layout(locales[i])])

\* a section is there with its layouts, or not there at all
Sections(tag) == {<<>>} \cup {<<Section(tag, s)>> : s \in LayoutLists}

Term(name, text) == Elem("term", name, text, <<>>)

SpaceEtAlTerm == Term(SpaceEtAl, " et al.")

AndTerm == Term("and", "and")

DateElem == Elem("date", "numeric", "", <<>>)

\* the children of a terms element: terms with different names, or a
\* date element and no term
TermsKids ==
  {<<SpaceEtAlTerm>>, <<AndTerm>>, <<SpaceEtAlTerm, AndTerm>>,
   <<AndTerm, SpaceEtAlTerm>>, <<DateElem>>}

\* a locale with a terms element, or without
Locales ==
  {Elem("locale", "zh", "", <<>>)} \cup
  {Elem("locale", "zh", "", <<Elem("terms", Undefined, "", k)>>) :
     k \in TermsKids}

Names(kids) == Elem("names", "author", "", <<Elem("name", Undefined, "", <<>>)>> \o kids)

\* a macro: no names element; names without et-al; names with an et-al
\* that refers to the term space-et-al, or to the term and others
Macros ==
  {Elem("macro", "title", "", <<Elem("text", "title", "", <<>>)>>),
   Elem("macro", "editor", "", <<Names(<<>>)>>),
   Elem("macro", "author", "", <<Names(<<Elem("et-al", SpaceEtAl, "", <<>>)>>)>>),
   Elem("macro", "translator", "", <<Names(<<Elem("et-al", "and others", "", <<>>)>>)>>)}

Style(locales, macros, citation, bibliography) ==
  Elem("style", Undefined, "", locales \o macros \o citation \o bibliography)

\* The style files the pipeline is run on.  Either the two sections vary
\* and the locales and macros are one of two fixed lists, or the locales
\* and macros vary and the sections are one of two fixed pairs.
PlainLocale == Elem("locale", "zh", "", <<Elem("terms", Undefined, "", <<AndTerm>>)>>)

MarkedLocale ==
  Elem("locale", "zh", "", <<Elem("terms", Undefined, "", <<AndTerm, SpaceEtAlTerm>>)>>)

TitleMacro == Elem("macro", "title", "", <<Elem("text", "title", "", <<>>)>>)

AuthorMacro ==
  Elem("macro", "author", "", <<Names(<<Elem("et-al", SpaceEtAl, "", <<>>)>>)>>)

LayoutInputs ==
  {Style(r[1], r[2], c, b) :
     r \in {<<<<PlainLocale>>, <<TitleMacro, TitleMacro>>>>,
            <<<<MarkedLocale>>, <<AuthorMacro, TitleMacro>>>>},
     c \in Sections("citation"), b \in Sections("bibliography")}

TermInputs ==
  {Style(l, m, <<Section("citation", r[1])>>, <<Section("bibliography", r[2])>>) :
     r \in {<<<<Undefined>>, <<Undefined>>>>,
            <<<<"zh", Undefined>>, <<"en", Undefined>>>>},
     l \in SeqsUpTo(Locales, MaxLocales), m \in SeqsUpTo(Macros, MaxMacros)}

\* the orders in which the elements of a set can follow one another
Orders(S) ==
  {s \in [1..Cardinality(S) -> S] : \A e \in S : \E i \in DOMAIN s : s[i] = e}

TranslatorMacro ==
  Elem("macro", "translator", "",
       <<Names(<<Elem("et-al", "and others", "", <<>>)>>)>>)

\* Styles with nothing to rewrite: a locale, two macros, a citation and a
\* bibliography of one layout each, the five in any order.
OrderInputs ==
  {Elem("style", Undefined, "", kids) :
     kids \in Orders({PlainLocale, TitleMacro, TranslatorMacro,
                      Section("citation", <<Undefined>>),
                      Section("bibliography", <<Undefined>>)})}

Inputs == LayoutInputs \cup TermInputs \cup OrderInputs

----------------------------------------------------------------------------
(* normalize_csl *)

Init ==
  /\ file \in Inputs
  /\ csl = Absent
  /\ yielded = <<>>
  /\ messages = <<>>
  /\ pc = "parse"
  /\ err = "none"
  /\ raisedBy = "none"
  /\ saved = <<>>
  /\ written = FALSE
  /\ run = 1
  /\ firstOut = <<>>
  /\ firstLog = <<>>
  /\ version = "normalize_csl"
  /\ batch = <<>>
  /\ idx = 0
  /\ lpc = "single"
  /\ before = <<>>
  /\ exit = 0
  /\ stderr = ""
  /\ calls = <<>>
  /\ returned = <<>>
  /\ console = <<>>
  /\ wpc = <<>>
  /\ NoPage

\* const csl = parse(fs.readFileSync(cslFilePath))
Parse ==
  /\ pc = "parse"
  /\ csl' = parse(file)
  /\ pc' = "layouts"
  /\ UNCHANGED <<file, yielded, messages, err, raisedBy, saved, written, run,
               firstOut, firstLog, loopVars,
                 pageVars>>

\* A rule run to its end by the spread: the document as the rule left it,
\* the messages it yielded, and the exception when it threw one.
RunRule(rule, r, next) ==
  /\ csl' = r.csl
  /\ yielded' = yielded \o r.msgs
  /\ err' = r.err
  /\ raisedBy' = IF r.err = "none" THEN "none" ELSE rule
  /\ pc' = IF r.err = "none" THEN next ELSE "threw"
  /\ UNCHANGED <<file, messages, saved, written, run, firstOut, firstLog,
               loopVars,
                 pageVars>>

\* ...remove_duplicate_layouts(csl)
RemoveDuplicateLayouts ==
  /\ pc = "layouts"
  /\ RunRule("remove_duplicate_layouts", remove_duplicate_layouts(csl),
             IF version = "normalize_csl" THEN "terms" ELSE "write")

\* ...replace_space_et_al_terms(csl)
ReplaceSpaceEtAlTerms ==
  /\ pc = "terms"
  /\ RunRule("replace_space_et_al_terms", replace_space_et_al_terms(csl),
             "write")

\* fs.writeFileSync(savePath, stringify(csl)); return messages
WriteFile ==
  /\ pc = "write"
  /\ saved' = <<stringify(csl)>>
  /\ written' = TRUE
  /\ messages' = yielded
  /\ pc' = "done"
  /\ UNCHANGED <<file, csl, yielded, err, raisedBy, run, firstOut, firstLog,
               loopVars,
                 pageVars>>

\* normalize_csl called on the file the first call wrote
RunAgain ==
  /\ lpc = "single"
  /\ pc = "done"
  /\ run = 1
  /\ file' = saved[1]
  /\ firstOut' = saved
  /\ firstLog' = messages
  /\ run' = 2
  /\ csl' = Absent
  /\ yielded' = <<>>
  /\ messages' = <<>>
  /\ written' = FALSE
  /\ pc' = "parse"
  /\ UNCHANGED <<err, raisedBy, saved, loopVars,
                 pageVars>>

Next ==
  \/ Parse
  \/ RemoveDuplicateLayouts
  \/ ReplaceSpaceEtAlTerms
  \/ WriteFile
  \/ RunAgain

Spec == Init /\ [][Next]_vars

\* normalize_csl (normalize_style in the older script) from its call to
\* its end: the file it writes, the messages it returns, the exception
Normalize(f, v) ==
  LET layouts == remove_duplicate_layouts(parse(f))
      terms == IF layouts.err # "none" \/ v = "normalize_style" THEN layouts
               ELSE replace_space_et_al_terms(layouts.csl)
      err1 == IF layouts.err # "none" THEN layouts.err ELSE terms.err
  IN [err |-> err1,
      out |-> IF err1 = "none" THEN <<stringify(terms.csl)>> ELSE <<>>,
      msgs |-> IF err1 # "none" THEN <<>>
               ELSE IF v = "normalize_style" THEN layouts.msgs
               ELSE layouts.msgs \o terms.msgs]

----------------------------------------------------------------------------
(* test_hayagriva and the loop over the files *)

\* The files of a batch: a style with nothing to rewrite, one with a layout
\* to remove in each section and a term and a reference to rename, one
\* with three layouts, one without citation, one with a single macro.
BatchFiles ==
  {Style(<<PlainLocale>>, <<TitleMacro, TranslatorMacro>>,
         <<Section("citation", <<Undefined>>)>>,
         <<Section("bibliography", <<Undefined>>)>>),
   Style(<<MarkedLocale>>, <<AuthorMacro, TitleMacro>>,
         <<Section("citation", <<"zh", Undefined>>)>>,
         <<Section("bibliography", <<"en", Undefined>>)>>),
   Style(<<PlainLocale>>, <<TitleMacro, TranslatorMacro>>,
         <<Section("citation", <<Undefined>>)>>,
         <<Section("bibliography", <<"en", "zh", Undefined>>)>>),
   Style(<<PlainLocale>>, <<TitleMacro, TranslatorMacro>>,
         <<>>,
         <<Section("bibliography", <<Undefined>>)>>),
   Style(<<PlainLocale>>, <<TitleMacro>>,
         <<Section("citation", <<Undefined>>)>>,
         <<Section("bibliography", <<"en", Undefined>>)>>)}

Batches == {b \in SeqsUpTo(BatchFiles, MaxBatch) : Len(b) >= 1}

\* what a hayagriva process can end with
ExitStatuses == {0, 1}

StderrTexts ==
  {"", "Failed to load CSL style (data did not match any variant of untagged enum Term)"}

InitBatch ==
  /\ version \in {"normalize_csl", "normalize_style"}
  /\ batch \in Batches
  /\ idx = 1
  /\ lpc = "next"
  /\ file = batch[1]
  /\ csl = Absent
  /\ yielded = <<>>
  /\ messages = <<>>
  /\ pc = "parse"
  /\ err = "none"
  /\ raisedBy = "none"
  /\ saved = <<>>
  /\ written = FALSE
  /\ run = 1
  /\ firstOut = <<>>
  /\ firstLog = <<>>
  /\ before = <<>>
  /\ exit = 0
  /\ stderr = ""
  /\ calls = <<>>
  /\ returned = <<>>
  /\ console = <<>>
  /\ wpc = <<>>
  /\ NoPage

\* for (const csl of [...]) { try { test_hayagriva(csl): the call, up to
\* the call of normalize_csl
StartFile ==
  /\ lpc = "next"
  /\ idx <= Len(batch)
  /\ lpc' = "file"
  /\ file' = batch[idx]
  /\ before' = saved
  /\ csl' = Absent
  /\ yielded' = <<>>
  /\ messages' = <<>>
  /\ pc' = "parse"
  /\ err' = "none"
  /\ raisedBy' = "none"
  /\ written' = FALSE
  /\ UNCHANGED <<saved, run, firstOut, firstLog, version, batch, idx, exit,
                 stderr, calls, returned, console, wpc,
                 pageVars>>

\* a process that wrote its diagnostics and returned the status of a success
ThrowsOnDiagnostics(status, text) == text # ""

\* execFileSync throws when the process ends with another status than 0
ExecThrows(status, text) == status # 0

\* make_bibliography(items, tmp_csl); return messages
MakeBibliography ==
  /\ lpc = "file"
  /\ pc = "done"
  /\ \E status \in ExitStatuses, text \in StderrTexts :
       /\ exit' = status
       /\ stderr' = text
       /\ calls' = Append(calls, [file |-> idx, style |-> saved,
                                  status |-> status, stderr |-> text])
       /\ IF ExecThrows(status, text)
          THEN /\ lpc' = "catch"
               /\ UNCHANGED <<idx, returned>>
          ELSE /\ lpc' = "next"
               /\ idx' = idx + 1
               /\ returned' = Append(returned, [file |-> idx, value |-> messages])
  /\ UNCHANGED <<pipeVars, version, batch, before, console, wpc,
                 pageVars>>

\* a test_hayagriva that swallows the exception of a rule and goes on
RuleSwallowed ==
  /\ lpc = "file"
  /\ pc = "threw"
  /\ pc' = "done"
  /\ UNCHANGED <<file, csl, yielded, messages, err, raisedBy, saved, written,
                 run, firstOut, firstLog, loopVars,
                 pageVars>>

\* the exception of a rule leaves normalize_csl and test_hayagriva
RuleThrows ==
  /\ lpc = "file"
  /\ pc = "threw"
  /\ lpc' = "catch"
  /\ UNCHANGED <<pipeVars, version, batch, idx, before, exit, stderr, calls,
                 returned, console, wpc,
                 pageVars>>

\* err.stderr: the diagnostics of the process, nothing on a rule's exception
ErrStderr == IF pc = "threw" THEN Undefined ELSE stderr

\* err.stderr ?? err
StderrOrErr == IF ErrStderr = Undefined THEN err ELSE ErrStderr

\* assert(err.stderr): undefined and the empty string are falsy
AssertHolds(v) == v \notin {Undefined, ""}

\* } catch (err) { console.error(csl, err.stderr ?? err);
\* assert(err.stderr); } in the script of normalize_csl,
\* console.error(csl, err.stderr) in the script of normalize_style
Catch ==
  /\ lpc = "catch"
  /\ console' = Append(console,
       [file |-> idx,
        text |-> IF version = "normalize_csl" THEN StderrOrErr ELSE ErrStderr])
  /\ IF version = "normalize_csl" /\ ~AssertHolds(ErrStderr)
     THEN lpc' = "crashed" /\ idx' = idx
     ELSE lpc' = "next" /\ idx' = idx + 1
  /\ UNCHANGED <<pipeVars, version, batch, before, exit, stderr, calls,
                 returned, wpc,
                 pageVars>>

NextBatch ==
  \/ StartFile
  \/ Parse
  \/ RemoveDuplicateLayouts
  \/ ReplaceSpaceEtAlTerms
  \/ WriteFile
  \/ MakeBibliography
  \/ RuleThrows
  \/ Catch

SpecBatch == InitBatch /\ [][NextBatch]_vars

-----------------------------------------------------------------------------
(* Two scripts running test_hayagriva at once in one working directory *)

Workers == {1, 2}

\* worker w is given batch[w]: two different files
WorkerFiles == {b \in Batches : Len(b) = 2 /\ b[1] # b[2]}

InitWorkers ==
  /\ version \in {"normalize_csl", "normalize_style"}
  /\ batch \in WorkerFiles
  /\ wpc = [w \in Workers |-> "start"]
  /\ idx = 0
  /\ lpc = "workers"
  /\ file = <<>>
  /\ csl = Absent
  /\ yielded = <<>>
  /\ messages = <<>>
  /\ pc = "parse"
  /\ err = "none"
  /\ raisedBy = "none"
  /\ saved = <<>>
  /\ written = FALSE
  /\ run = 1
  /\ firstOut = <<>>
  /\ firstLog = <<>>
  /\ before = <<>>
  /\ exit = 0
  /\ stderr = ""
  /\ calls = <<>>
  /\ returned = <<>>
  /\ console = <<>>
  /\ NoPage

\* const messages = normalize_csl(cslFilePath, tmp_csl), where tmp_csl is
\* "tmp/a.csl" whoever calls: the one file at that path, saved, is written
\* when no rule throws
WorkerNormalize(w) ==
  /\ wpc[w] = "start"
  /\ LET n == Normalize(batch[w], version) IN
       IF n.err # "none"
       THEN /\ wpc' = [wpc EXCEPT ![w] = "threw"]
            /\ UNCHANGED saved
       ELSE /\ wpc' = [wpc EXCEPT ![w] = "written"]
            /\ saved' = n.out
  /\ UNCHANGED <<file, csl, yielded, messages, pc, err, raisedBy, written,
                 run, firstOut, firstLog, version, batch, idx, lpc, before,
                 exit, stderr, calls, returned, console,
                 pageVars>>

\* make_bibliography(items, tmp_csl); return messages: hayagriva reads
\* whatever the file at tmp_csl holds by now
WorkerValidate(w) ==
  /\ wpc[w] = "written"
  /\ \E status \in ExitStatuses, text \in StderrTexts :
       /\ calls' = Append(calls, [file |-> w, style |-> saved,
                                  status |-> status, stderr |-> text])
       /\ IF ExecThrows(status, text)
          THEN /\ wpc' = [wpc EXCEPT ![w] = "rejected"]
               /\ UNCHANGED returned
          ELSE /\ wpc' = [wpc EXCEPT ![w] = "returned"]
               /\ returned' = Append(returned,
                    [file |-> w, value |-> Normalize(batch[w], version).msgs])
  /\ UNCHANGED <<pipeVars, version, batch, idx, lpc, before, exit, stderr,
                 console,
                 pageVars>>

NextWorkers ==
  \/ \E w \in Workers : WorkerNormalize(w)
  \/ \E w \in Workers : WorkerValidate(w)

SpecWorkers == InitWorkers /\ [][NextWorkers]_vars

-----------------------------------------------------------------------------
(* The userscript on zotero-chinese.com/styles *)

StyleIds == {"a", "b"}

\* entry.changes, an array of messages in index.json
ChangeLists ==
  {<<>>, <<Text(MsgBibLayout)>>, <<Text(MsgBibLayout), Text(MsgTermName)>>}

Entry(id, changes) ==
  [sanitized_url |-> "sanitized/" \o id, diff_url |-> "diff/" \o id,
   changes |-> [kind |-> "array", items |-> changes]]

\* index.json: an entry for some of the styles
Indexes ==
  UNION {{[id \in S |-> Entry(id, f[id])] : f \in [S -> ChangeLists]} :
         S \in SUBSET StyleIds}

\* the list of the styles, and the page of each style
Pages == {<<"styles">>} \cup {<<"styles", id>> : id \in StyleIds}

\* window.location.pathname.match(/\/styles\/.+\//)
IsStylePage(path) ==
  \E i \in 1..Len(path) : path[i] = "styles" /\ i < Len(path)

\* the text of the first cell of the table of the page: the style's id
CslId(path) == path[Len(path)]

\* index[csl_id]
Lookup(ix, id) == IF id \in DOMAIN ix THEN Obj(ix[id]) ELSE Absent

Heading == [tag |-> "h3", id |-> "hayagriva-version"]

LinksP(entry) ==
  [tag |-> "p", links |-> <<entry.sanitized_url, entry.diff_url>>]

Details(changes) == [tag |-> "details", li |-> changes]

\* the note that the style needs no change and is ready to use
NoChangesP == [tag |-> "p", text |-> "(No changes required, ready to use)"]

\* the note that the style is not supported yet, with the link NEW_ISSUE
UnsupportedP == [tag |-> "p", links |-> <<"issues/new">>]

\* const elements = [h3]; ...; elements.push(...): the array the last loop
\* of annotate_info inserts; if (entry) and if (entry.changes) hold of an
\* object and of an array, an empty one too
Elements(entry) ==
  IF Truthy(entry)
  THEN LET e == entry.items[1] IN
       <<Heading, LinksP(e)>>
       \o (IF Truthy(e.changes) THEN <<Details(e.changes.items)>>
           ELSE <<NoChangesP>>)
  ELSE <<Heading>>

\* the item of the style on the index page of the site
IndexPageItem(entry) ==
  <<LinksP(entry)>>
  \o (IF Len(entry.changes.items) > 0 THEN <<Details(entry.changes.items)>>
      ELSE <<NoChangesP>>)

InitPage ==
  /\ index \in Indexes
  /\ location \in Pages
  /\ rendered \in BOOLEAN
  /\ dom = <<>>
  /\ timers = 0
  /\ hooked = "starting"
  /\ outcome = "none"
  /\ version = "userscript"
  /\ batch = <<>>
  /\ wpc = <<>>
  /\ idx = 0
  /\ lpc = "page"
  /\ file = <<>>
  /\ csl = Absent
  /\ yielded = <<>>
  /\ messages = <<>>
  /\ pc = "parse"
  /\ err = "none"
  /\ raisedBy = "none"
  /\ saved = <<>>
  /\ written = FALSE
  /\ run = 1
  /\ firstOut = <<>>
  /\ firstLog = <<>>
  /\ before = <<>>
  /\ exit = 0
  /\ stderr = ""
  /\ calls = <<>>
  /\ returned = <<>>
  /\ console = <<>>

\* annotate_info(): how it ends, and the elements before the h2 afterwards
annotate_info ==
  IF ~IsStylePage(location) \/ Heading \in Range(dom)
  THEN [outcome |-> "skipped", dom |-> dom]
  ELSE IF ~rendered
  THEN [outcome |-> "TypeError", dom |-> dom]
  ELSE [outcome |-> "inserted",
        dom |-> dom \o Elements(Lookup(index, CslId(location)))]

\* annotate_info(); watch_page_change(annotate_info); at the end of the
\* script: an exception of the first call leaves the script
Start ==
  /\ hooked = "starting"
  /\ dom' = annotate_info.dom
  /\ outcome' = annotate_info.outcome
  /\ hooked' = IF annotate_info.outcome = "TypeError" THEN "no" ELSE "yes"
  /\ UNCHANGED <<pipeVars, loopVars, index, location, rendered, timers>>

\* the site puts the table and the headings of the page in the document
Render ==
  /\ ~rendered
  /\ rendered' = TRUE
  /\ UNCHANGED <<pipeVars, loopVars, index, location, dom, timers, hooked,
                 outcome>>

\* history.pushState or popstate to another page: the site replaces the
\* content, and the hook sets a timer
Navigate(path) ==
  /\ hooked # "starting"
  /\ path # location
  /\ timers < MaxTimers
  /\ location' = path
  /\ rendered' = FALSE
  /\ dom' = <<>>
  /\ outcome' = "none"
  /\ timers' = IF hooked = "yes" THEN timers + 1 ELSE timers
  /\ UNCHANGED <<pipeVars, loopVars, index, hooked>>

\* history.replaceState on the same page: the hook sets a timer
ReplaceState ==
  /\ hooked = "yes"
  /\ timers < MaxTimers
  /\ timers' = timers + 1
  /\ UNCHANGED <<pipeVars, loopVars, index, location, rendered, dom, hooked,
                 outcome>>

\* setTimeout(() => fn(), 100) fires
Timeout ==
  /\ timers > 0
  /\ timers' = timers - 1
  /\ dom' = annotate_info.dom
  /\ outcome' = IF annotate_info.outcome = "skipped" /\ outcome = "inserted"
                THEN outcome ELSE annotate_info.outcome
  /\ UNCHANGED <<pipeVars, loopVars, index, location, rendered, hooked>>

NextPage ==
  \/ Start
  \/ Render
  \/ \E path \in Pages : Navigate(path)
  \/ ReplaceState
  \/ Timeout

SpecPage == InitPage /\ [][NextPage]_vars

----------------------------------------------------------------------------
(* What the claims speak of *)

Children(e, tag) == SelectSeq(e.kids, LAMBDA k : k.tag = tag)

Attrs(es) == [i \in 1..Len(es) |-> es[i].attr]

\* the locale attributes of the layouts of a section of a style file, in
\* order; the empty sequence when the file has no such section
FileLayouts(f, section) ==
  LET secs == Children(f, section)
  IN IF secs = <<>> THEN <<>> ELSE Attrs(Children(secs[1], "layout"))

\* the same, of the parsed document
CslLayouts(section) == Attrs(Prop(Get(csl, section), "layout").items)

Count(ms, m) == Len(SelectSeq(ms, LAMBDA x : x = m))

Present(locales) == \A i \in 1..Len(locales) : locales[i] # Undefined

\* the first run has left remove_duplicate_layouts, by return or by throw
LayoutRuleLeft == run = 1 /\ pc \in {"terms", "write", "done", "threw"}

\* the first run has left replace_space_et_al_terms
TermRuleLeft ==
  /\ run = 1
  /\ \/ pc \in {"write", "done"}
     \/ pc = "threw" /\ raisedBy = "replace_space_et_al_terms"

\* a message ends with its category in brackets or in parentheses
EndsWithTag(m) ==
  /\ Len(m) >= 3
  /\ <<m[Len(m) - 2], m[Len(m)]>> \in {<<"(", ")">>, <<"[", "]">>}

Texts(ms) == [i \in 1..Len(ms) |-> Text(ms[i])]

----------------------------------------------------------------------------
(* Claims *)

\* C1: for a bibliography of k >= 1 layouts with distinct locale
\* attributes (the citation holding one layout), the rule raises nothing,
\* yields exactly k - 1 bibliography messages and leaves one layout, the
\* last of the original order.
C1_DedupAnyLength ==
  LET locales == FileLayouts(file, "bibliography")
      k == Len(locales)
  IN (/\ LayoutRuleLeft
      /\ k >= 1 /\ Present(locales) /\ Distinct(locales)
      /\ Len(FileLayouts(file, "citation")) = 1)
     => /\ raisedBy # "remove_duplicate_layouts"
        /\ Count(yielded, MsgBibLayout) = k - 1
        /\ CslLayouts("bibliography") = <<locales[k]>>

\* C2: for the style whose bibliography has the layouts en then zh, and
\* nothing else to rewrite, the run ends, the written file has the one
\* layout zh, and the log is the one message of the README.
C2_Input ==
  Style(<<PlainLocale>>, <<TitleMacro, TitleMacro>>,
        <<Section("citation", <<Undefined>>)>>,
        <<Section("bibliography", <<"en", "zh">>)>>)

C2_ReadmeMessage ==
  (run = 1 /\ file = C2_Input /\ pc \in {"done", "threw"})
  => /\ pc = "done"
     /\ FileLayouts(saved[1], "bibliography") = <<"zh">>
     /\ Texts(messages) =
          <<"Removed the localized (en) layout for bibliography. [Discard CSL-M extension]">>

\* C3: every message of the log a run returns ends with a category in
\* brackets or parentheses.
C3_EveryMessageTagged ==
  pc = "done" => \A i \in 1..Len(messages) : EndsWithTag(messages[i])

\* C4: on a style with no citation section whose bibliography the rule
\* accepts, the rule raises nothing and yields exactly the messages for the
\* bibliography.
C4_NoCitationNoRaise ==
  LET bib == DedupSection(Ok(parse(file), <<>>), "bibliography", MsgBibLayout)
  IN (/\ LayoutRuleLeft
      /\ Children(file, "citation") = <<>>
      /\ bib.err = "none")
     => /\ raisedBy # "remove_duplicate_layouts"
        /\ SelectSeq(yielded, LAMBDA m : m \in {MsgBibLayout, MsgCiteLayout})
             = bib.msgs

\* C5: when the list of a section has more than one layout and the first,
\* the one to discard, has no locale attribute, the run ends by a throw of
\* the rule, the list is as parsed, no removal message of that section was
\* yielded, and nothing is returned or written.
StrayDefault(section) ==
  LET locales == FileLayouts(file, section)
  IN Len(locales) > 1 /\ locales[1] = Undefined

C5_NoLocaleFails ==
  \A section \in {"bibliography", "citation"} :
    (LayoutRuleLeft /\ StrayDefault(section))
    => /\ pc = "threw"
       /\ raisedBy = "remove_duplicate_layouts"
       /\ CslLayouts(section) = FileLayouts(file, section)
       /\ Count(yielded,
                IF section = "bibliography" THEN MsgBibLayout
                ELSE MsgCiteLayout) = 0
       /\ messages = <<>>
       /\ ~written

\* a run in which the citation's first layout has no locale, after the
\* bibliography's first layout was removed
C5_Witness ==
  /\ pc = "threw"
  /\ StrayDefault("citation")
  /\ Len(FileLayouts(file, "citation")) = 2
  /\ Count(yielded, MsgBibLayout) = 1

\* the document in the hands of the rules, as stringify would write it
Doc == stringify(csl)

\* the term elements of a locale element
TermsOf(locale) ==
  Concat([i \in 1..Len(Children(locale, "terms")) |->
            Children(Children(locale, "terms")[i], "term")])

\* the term elements of a style, locale after locale
AllTerms(f) ==
  Concat([i \in 1..Len(Children(f, "locale")) |->
            TermsOf(Children(f, "locale")[i])])

\* a locale whose terms element holds no term
NoTermInTerms(locale) ==
  Children(locale, "terms") # <<>> /\ TermsOf(locale) = <<>>

SoundLocales(f) ==
  /\ Children(f, "locale") # <<>>
  /\ \A i \in 1..Len(Children(f, "locale")) :
       ~NoTermInTerms(Children(f, "locale")[i])

\* the term attributes of the names/et-al constructs of a macro element
EtAlRefs(macro) ==
  Concat([i \in 1..Len(Children(macro, "names")) |->
            Attrs(Children(Children(macro, "names")[i], "et-al"))])

Refers(macro) == SpaceEtAl \in Range(EtAlRefs(macro))

Referring(f) == SelectSeq(Children(f, "macro"), Refers)

IsDeclaration(term) == term.attr = SpaceEtAl

Renamed(term) ==
  IF IsDeclaration(term) THEN [term EXCEPT !.attr = EtAl] ELSE term

\* the messages of replace_space_et_al_terms among those yielded
TermRuleMessages == Range(yielded) \cap {MsgTermName, MsgEtAlRef}

\* C6: when a locale declares the term space-et-al and a macro's
\* names/et-al refers to it (every terms element holding a term), the rule
\* raises nothing, the declarations are named et-al with their text
\* unchanged, the references are et-al, and two distinct messages are
\* yielded.
C6_RenameComplete ==
  (/\ TermRuleLeft
   /\ SoundLocales(file)
   /\ SelectSeq(AllTerms(file), IsDeclaration) # <<>>
   /\ Referring(file) # <<>>)
  => /\ raisedBy = "none"
     /\ AllTerms(Doc) = [i \in 1..Len(AllTerms(file)) |-> Renamed(AllTerms(file)[i])]
     /\ Referring(Doc) = <<>>
     /\ Cardinality(TermRuleMessages) = 2

\* C7: whatever the number of macros (the locales being sound), the rule
\* raises nothing, no macro is left referring to space-et-al, and one
\* message is yielded for each macro that did.
C7_EveryMacro ==
  (TermRuleLeft /\ SoundLocales(file))
  => /\ raisedBy = "none"
     /\ Referring(Doc) = <<>>
     /\ Count(yielded, MsgEtAlRef) = Len(Referring(file))

\* C8: on a style with no locale element (and several macros) the rule
\* raises nothing, yields no declaration message and leaves the locales as
\* they were.
C8_NoLocale ==
  (/\ TermRuleLeft
   /\ Children(file, "locale") = <<>>
   /\ Len(Children(file, "macro")) >= 2)
  => /\ raisedBy = "none"
     /\ Count(yielded, MsgTermName) = 0
     /\ Children(Doc, "locale") = <<>>

\* C9: on a style with a locale whose terms element holds no term (and
\* several macros) the rule raises nothing and renames the declarations of
\* every other locale, one message for each.
C9_SkipLocaleWithoutTerm ==
  (/\ TermRuleLeft
   /\ \E i \in 1..Len(Children(file, "locale")) :
        NoTermInTerms(Children(file, "locale")[i])
   /\ Len(Children(file, "macro")) >= 2)
  => /\ raisedBy = "none"
     /\ AllTerms(Doc) = [i \in 1..Len(AllTerms(file)) |-> Renamed(AllTerms(file)[i])]
     /\ Count(yielded, MsgTermName)
          = Len(SelectSeq(AllTerms(file), IsDeclaration))

\* C10: the run on the output of a run that succeeded ends by a return,
\* yields and returns no message, and writes the file it read.
C10_Idempotent ==
  /\ run = 2 => yielded = <<>> /\ pc # "threw"
  /\ (run = 2 /\ pc = "done") => messages = <<>> /\ saved = firstOut

\* the second run is over, on the output of a first run that removed a
\* layout and renamed a declaration and a reference
C10_Witness ==
  /\ run = 2
  /\ pc = "done"
  /\ {MsgBibLayout, MsgTermName, MsgEtAlRef} \subseteq Range(firstLog)

\* a style none of whose sections has several layouts, that declares no
\* term space-et-al and refers to none
NoDeviation(f) ==
  /\ Len(FileLayouts(f, "bibliography")) <= 1
  /\ Len(FileLayouts(f, "citation")) <= 1
  /\ SelectSeq(AllTerms(f), IsDeclaration) = <<>>
  /\ Referring(f) = <<>>

\* a style with a sound locale, several macros and both sections: one the
\* two rules run through
Complete(f) ==
  /\ SoundLocales(f)
  /\ Len(Children(f, "macro")) >= 2
  /\ Children(f, "citation") # <<>>
  /\ Children(f, "bibliography") # <<>>

\* C11: on a style with nothing to rewrite (a complete one) the run ends
\* by a return, the log is empty and the file written is the file read,
\* its elements in the order they had.
C11_RoundTrip ==
  (run = 1 /\ NoDeviation(file) /\ Complete(file) /\ pc \in {"done", "threw"})
  => /\ pc = "done"
     /\ messages = <<>>
     /\ saved = <<file>>

----------------------------------------------------------------------------
(* Claims on test_hayagriva and the loop *)

\* the hayagriva processes whose end the script has dealt with
Handled ==
  IF lpc = "catch" THEN SubSeq(calls, 1, Len(calls) - 1) ELSE calls

About(log, i) == SelectSeq(log, LAMBDA r : r.file = i)

\* C12: a process that ended with status 0 has test_hayagriva return the
\* log of the file, and nothing is printed for the file; a process that
\* ended with another status has its standard error printed for the file
\* as it is, and nothing is returned.
C12_ExitStatusDecides ==
  \A k \in 1..Len(Handled) :
    LET c == Handled[k] IN
    IF c.status = 0
    THEN /\ About(returned, c.file)
              = <<[file |-> c.file, value |-> Normalize(batch[c.file], version).msgs]>>
         /\ About(console, c.file) = <<>>
    ELSE /\ About(console, c.file) = <<[file |-> c.file, text |-> c.stderr]>>
         /\ About(returned, c.file) = <<>>

\* a batch in which one process wrote diagnostics and ended with 0, for a
\* file with a log, and another ended with 1
C12_Witness ==
  /\ Len(Handled) = 2
  /\ \E k \in 1..2 : /\ Handled[k].status = 0
                     /\ Handled[k].stderr # ""
                     /\ Normalize(batch[Handled[k].file], version).msgs # <<>>
  /\ \E k \in 1..2 : Handled[k].status = 1 /\ Handled[k].stderr # ""

\* the loop is over: it went through the batch, or an exception left it
LoopOver == lpc = "crashed" \/ (lpc = "next" /\ idx > Len(batch))

Reported(i) == About(returned, i) # <<>> \/ About(console, i) # <<>>

RuleFails(i) == Normalize(batch[i], version).err # "none"

\* C13: when a rule throws on a file of the batch, every later file has
\* been processed and reported by the time the loop is over.
C13_RuleErrorAbortsOneFile ==
  LoopOver =>
    \A i \in 1..Len(batch) : \A j \in 1..Len(batch) :
      (RuleFails(i) /\ i < j) => Reported(j)

Last(q) == q[Len(q)]

\* C16: a file is written only once the rules have returned, and hayagriva
\* is run only on a written file, on the style normalize_csl wrote, at most
\* once for a file; when a rule throws, the save path holds what it held
\* and hayagriva is not run for the file; when hayagriva rejects the
\* style, the file written stays as it is.
C16_StepOrder ==
  /\ written => pc = "done"
  /\ \A i \in 1..Len(batch) :
       /\ Len(About(calls, i)) <= 1
       /\ RuleFails(i) => About(calls, i) = <<>>
  /\ \A k \in 1..Len(calls) :
       calls[k].style = Normalize(batch[calls[k].file], version).out
  /\ pc = "threw" =>
       /\ ~written
       /\ saved = before
       /\ About(calls, idx) = <<>>
  /\ (lpc \in {"catch", "next", "crashed"} /\ calls # <<>>
      /\ Last(calls).status # 0)
     => saved = Last(calls).style

\* hayagriva rejected the first file, and a rule threw on the second
C16_Witness ==
  /\ Len(batch) = 2
  /\ idx >= 2
  /\ lpc \in {"next", "crashed"}
  /\ Len(calls) = 1 /\ calls[1].file = 1 /\ calls[1].status = 1
  /\ RuleFails(2)
  /\ About(console, 2) # <<>>
  /\ saved = Normalize(batch[1], version).out

\* the place of a message in the catalog of the rules
Rank(m) ==
  CASE m = MsgBibLayout -> 1
    [] m = MsgCiteLayout -> 2
    [] m = MsgTermName -> 3
    [] m = MsgEtAlRef -> 4

\* C15: the messages yielded so far are in catalog order (bibliography
\* layout, citation layout, term names, et-al references), the second rule
\* starts on the document as the first rule left it, and the log returned
\* is the messages of the first rule followed by the messages of the
\* second rule run on that document.
C15_CatalogOrder ==
  /\ \A i, j \in 1..Len(yielded) :
       i < j => /\ Rank(yielded[i]) <= Rank(yielded[j])
                /\ Rank(yielded[i]) <= 2 => Rank(yielded[i]) < Rank(yielded[j])
  /\ pc = "terms" =>
       /\ csl = remove_duplicate_layouts(parse(file)).csl
       /\ yielded = remove_duplicate_layouts(parse(file)).msgs
       /\ Len(CslLayouts("bibliography")) <= 1
       /\ Len(CslLayouts("citation")) <= 1
  /\ pc = "done" =>
       LET first == remove_duplicate_layouts(parse(file))
           second == replace_space_et_al_terms(first.csl)
       IN messages = first.msgs \o second.msgs

\* a run that returned all four kinds of message
C15_Witness ==
  /\ pc = "done"
  /\ run = 1
  /\ {MsgBibLayout, MsgCiteLayout, MsgTermName, MsgEtAlRef} \subseteq Range(messages)
  /\ Len(FileLayouts(file, "bibliography")) = 2

\* C14: in every interleaving of two workers, the style hayagriva reads
\* for a worker is the output of normalize_csl on that worker's own file.
C14_OwnOutput ==
  \A k \in 1..Len(calls) :
    calls[k].style = Normalize(batch[calls[k].file], version).out

\* what the page of a style is to show for its entry of the index
Expected(entry) ==
  IF entry.kind = "undefined" THEN <<Heading, UnsupportedP>>
  ELSE <<Heading>> \o IndexPageItem(entry.items[1])

\* C17: once annotate_info has inserted its elements on the page of a
\* style, the page holds the heading and the one status of the style's
\* entry: the links and the list of changes, the links and the note that
\* no change is required (as on the index page), or the note that the
\* style is not supported.
C17_StatusMatchesIndex ==
  (IsStylePage(location) /\ outcome = "inserted")
  => dom = Expected(Lookup(index, CslId(location)))

====
